---- MODULE Spec2Model ----
(***************************************************************************)
(* A model of package homecast (src/homecast.go).                          *)
(*                                                                         *)
(* Two parts share the module:                                             *)
(*   - LookupAndConnect: the caller task, the collector goroutine and the  *)
(*     buffered channel between them (specification Spec);                 *)
(*   - the CastDevice methods Speak, Play, QueueLoad and QueueInsert on a   *)
(*     device that a finished LookupAndConnect returned (specification     *)
(*     SpecCast).                                                          *)
(*                                                                         *)
(* Go strings are sequences of one-character strings, so that HasPrefix,   *)
(* QueryEscape, url.Parse and URL.String are computed and not assumed.     *)
(***************************************************************************)
EXTENDS Integers, Sequences, FiniteSets, TLC

VARIABLES
    callerPc,     \* position of the task running LookupAndConnect
    collectorPc,  \* position of the goroutine started at line 127
    entriesCh,    \* buffered channel entriesCh: ids of the queued entries
    chClosed,     \* whether close(entriesCh) has run
    closeCount,   \* how many times close(entriesCh) has run
    lookupErr,    \* the error mdns.Lookup returned (TRUE: non-nil)
    delivered,    \* every *mdns.ServiceEntry the lookup sent, in send order
    entry,        \* the collector's loop variable entry (0: none)
    fieldIdx,     \* the collector's position in entry.InfoFields
    clients,      \* every *cast.Client made by cast.NewClient, in order
    results,      \* the slice results, as the collector sees it
    returned,     \* the value LookupAndConnect returned
    call,         \* the CastDevice method call last made and its outcome
    mediaReqs,    \* number of g.client.Media(ctx) requests of that call
    sent          \* commands that call sent on the media handle, in order

discoveryVars == <<callerPc, collectorPc, entriesCh, chClosed, closeCount,
                   lookupErr, delivered, entry, fieldIdx, clients, results,
                   returned>>
castVars == <<call, mediaReqs, sent>>
vars == <<callerPc, collectorPc, entriesCh, chClosed, closeCount, lookupErr,
          delivered, entry, fieldIdx, clients, results, returned,
          call, mediaReqs, sent>>

(***************************************************************************)
(* Bounds of the model.                                                    *)
(***************************************************************************)
\* advertisements one mdns.Lookup call sends at most
MaxAds == 2
\* characters of a Speak text at most
MaxText == 2
\* characters of a Speak language tag at most
MaxLang == 1
\* MediaData elements of one QueueLoad / QueueInsert call at most
MaxItems == 2

(***************************************************************************)
(* Strings.                                                                *)
(***************************************************************************)
\* HasPrefix with strings.Contains in its place
HasPrefixAsContains(s, prefix) ==
    \E i \in 0..(Len(s) - Len(prefix)) :
        SubSeq(s, i + 1, i + Len(prefix)) = prefix

\* strings.HasPrefix(s, prefix)
HasPrefix(s, prefix) ==
    /\ Len(s) >= Len(prefix)
    /\ SubSeq(s, 1, Len(prefix)) = prefix

\* const googleHomeModelInfo = "md=Google Home"
googleHomeModelInfo ==
    <<"m", "d", "=", "G", "o", "o", "g", "l", "e", " ", "H", "o", "m", "e">>

\* Descriptor fields: the marker itself, the marker followed by more text,
\* a proper prefix of the marker, and a field that holds the marker but not
\* at its start.
FieldGoogleHome == googleHomeModelInfo
FieldGoogleHomeMini == googleHomeModelInfo \o <<" ", "M", "i", "n", "i">>
FieldMdGoogle == <<"m", "d", "=", "G", "o", "o", "g", "l", "e">>
FieldFnGoogleHome == <<"f", "n", "=">> \o googleHomeModelInfo
\* The InfoFields an advertisement may carry: no field at all, the marker
\* alone, two fields that both begin with the marker, two fields of which
\* none does, and the marker in the second field only.
InfoFieldsSet ==
    { <<>>,
      <<FieldGoogleHome>>,
      <<FieldGoogleHomeMini, FieldGoogleHome>>,
      <<FieldFnGoogleHome, FieldMdGoogle>>,
      <<FieldMdGoogle, FieldGoogleHomeMini>> }

(***************************************************************************)
(* LookupAndConnect.                                                       *)
(***************************************************************************)
\* capacity of entriesCh: make(chan *mdns.ServiceEntry, 4)
ChanCap == 4

\* The k-th host that answers the query: mdns sends one entry per host, so
\* the entries of one lookup have different addresses.
AddrOf(k) == <<"10.0.0.", k>>

\* the *mdns.ServiceEntry records the lookup may send as its k-th entry
ServiceEntries(k) ==
    {[AddrV4 |-> AddrOf(k), Port |-> 8009, InfoFields |-> fs] :
        fs \in InfoFieldsSet}

\* &CastDevice{entry, client}: both fields are pointers, modelled as the
\* entry's index in delivered and the client's index in clients
CastDevice(e, c) == [entry |-> e, client |-> c]

\* cast.NewClient(entry.AddrV4, entry.Port), before Connect is called
NewClient(e) ==
    [host |-> delivered[e].AddrV4, port |-> delivered[e].Port,
     entry |-> e, state |-> "connecting"]

\* AppendResult putting the new device first
AppendFront(rs, d) == <<d>> \o rs

\* results = append(results, d)
AppendResult(rs, d) == Append(rs, d)

Init ==
    /\ callerPc = "start"
    /\ collectorPc = "idle"
    /\ entriesCh = <<>>
    /\ chClosed = FALSE
    /\ closeCount = 0
    /\ lookupErr = FALSE
    /\ delivered = <<>>
    /\ entry = 0
    /\ fieldIdx = 0
    /\ clients = <<>>
    /\ results = <<>>
    /\ returned = <<>>
    /\ call = [op |-> "none"]
    /\ mediaReqs = 0
    /\ sent = <<>>

\* lines 124-141: make the channel and the slice, start the goroutine
Begin ==
    /\ callerPc = "start"
    /\ callerPc' = "lookup"
    /\ collectorPc' = "recv"
    /\ UNCHANGED <<entriesCh, chClosed, closeCount, lookupErr, delivered,
                   entry, fieldIdx, clients, results, returned>>
    /\ UNCHANGED castVars

\* line 143, inside mdns.Lookup: the lookup sends one more entry on the
\* channel it was given; a send needs room in the buffer
LookupDeliver ==
    /\ callerPc = "lookup"
    /\ Len(delivered) < MaxAds
    /\ Len(entriesCh) < ChanCap
    /\ \E e \in ServiceEntries(Len(delivered) + 1) :
          delivered' = Append(delivered, e)
    /\ entriesCh' = Append(entriesCh, Len(delivered) + 1)
    /\ UNCHANGED <<callerPc, collectorPc, chClosed, closeCount, lookupErr,
                   entry, fieldIdx, clients, results, returned>>
    /\ UNCHANGED castVars

\* LookupReturn closing the channel in its error branch too
LookupReturnClosingOnErr ==
    /\ callerPc = "lookup"
    /\ \E err \in BOOLEAN :
          /\ lookupErr' = err
          /\ chClosed' = (chClosed \/ err)
          /\ closeCount' = IF err THEN closeCount + 1 ELSE closeCount
    /\ callerPc' = "close"
    /\ UNCHANGED <<collectorPc, entriesCh, delivered, entry, fieldIdx,
                   clients, results, returned>>
    /\ UNCHANGED castVars

\* lines 143-146: mdns.Lookup returns, with or without an error, which is
\* only logged
LookupReturn ==
    /\ callerPc = "lookup"
    /\ \E err \in BOOLEAN : lookupErr' = err
    /\ callerPc' = "close"
    /\ UNCHANGED <<collectorPc, entriesCh, chClosed, closeCount, delivered,
                   entry, fieldIdx, clients, results, returned>>
    /\ UNCHANGED castVars

\* Close skipped when the lookup returned an error
CloseUnlessErr ==
    /\ callerPc = "close"
    /\ chClosed' = (chClosed \/ ~lookupErr)
    /\ closeCount' = IF lookupErr THEN closeCount ELSE closeCount + 1
    /\ callerPc' = "return"
    /\ UNCHANGED <<collectorPc, entriesCh, lookupErr, delivered, entry,
                   fieldIdx, clients, results, returned>>
    /\ UNCHANGED castVars

\* line 147: close(entriesCh)
Close ==
    /\ callerPc = "close"
    /\ chClosed' = TRUE
    /\ closeCount' = closeCount + 1
    /\ callerPc' = "return"
    /\ UNCHANGED <<collectorPc, entriesCh, lookupErr, delivered, entry,
                   fieldIdx, clients, results, returned>>
    /\ UNCHANGED castVars

\* What the read of the slice results at line 149 can give. Nothing orders
\* that read after the collector's writes at line 137, so it is a data race:
\* the slice header the caller sees may be any the collector has written so
\* far, that is, any prefix of results.
RacyReads(rs) == {SubSeq(rs, 1, k) : k \in 0..Len(rs)}

\* line 149: return results
Return ==
    /\ callerPc = "return"
    /\ \E r \in RacyReads(results) : returned' = r
    /\ callerPc' = "done"
    /\ UNCHANGED <<collectorPc, entriesCh, chClosed, closeCount, lookupErr,
                   delivered, entry, fieldIdx, clients, results>>
    /\ UNCHANGED castVars

\* line 128, for entry := range entriesCh: receive the oldest queued entry
CollectorRecv ==
    /\ collectorPc = "recv"
    /\ entriesCh # <<>>
    /\ entry' = Head(entriesCh)
    /\ entriesCh' = Tail(entriesCh)
    /\ fieldIdx' = 1
    /\ collectorPc' = "fields"
    /\ UNCHANGED <<callerPc, chClosed, closeCount, lookupErr, delivered,
                   clients, results, returned>>
    /\ UNCHANGED castVars

\* CollectorExit for a receive loop that does not notice the close and
\* goes on receiving zero values
CollectorSpinsWhenClosed ==
    /\ collectorPc = "recv"
    /\ entriesCh = <<>>
    /\ chClosed
    /\ UNCHANGED discoveryVars
    /\ UNCHANGED castVars

\* line 128: the range loop ends when the channel is closed and empty
CollectorExit ==
    /\ collectorPc = "recv"
    /\ entriesCh = <<>>
    /\ chClosed
    /\ collectorPc' = "done"
    /\ entry' = 0
    /\ fieldIdx' = 0
    /\ UNCHANGED <<callerPc, entriesCh, chClosed, closeCount, lookupErr,
                   delivered, clients, results, returned>>
    /\ UNCHANGED castVars

\* lines 130-132: one step of for _, field := range entry.InfoFields, up to
\* the call of client.Connect
CollectorField ==
    /\ collectorPc = "fields"
    /\ IF fieldIdx > Len(delivered[entry].InfoFields)
       THEN /\ collectorPc' = "recv"
            /\ UNCHANGED <<entry, fieldIdx, clients>>
       ELSE IF HasPrefix(delivered[entry].InfoFields[fieldIdx], googleHomeModelInfo)
       THEN /\ clients' = Append(clients, NewClient(entry))
            /\ collectorPc' = "connect"
            /\ UNCHANGED <<entry, fieldIdx>>
       ELSE /\ fieldIdx' = fieldIdx + 1
            /\ UNCHANGED <<collectorPc, entry, clients>>
    /\ UNCHANGED <<callerPc, entriesCh, chClosed, closeCount, lookupErr,
                   delivered, results, returned>>
    /\ UNCHANGED castVars

\* CollectorConnect appending the device whether or not Connect failed
CollectorConnectAppendAlways ==
    /\ collectorPc = "connect"
    /\ \E ok \in BOOLEAN :
          clients' = [clients EXCEPT ![Len(clients)].state =
                          IF ok THEN "connected" ELSE "failed"]
    /\ results' = AppendResult(results, CastDevice(entry, Len(clients)))
    /\ fieldIdx' = fieldIdx + 1
    /\ collectorPc' = "fields"
    /\ UNCHANGED <<callerPc, entriesCh, chClosed, closeCount, lookupErr,
                   delivered, entry, returned>>
    /\ UNCHANGED castVars

\* lines 133-137: client.Connect(ctx) returns; on an error the inner loop
\* continues with the next field, otherwise the device is appended
CollectorConnect ==
    /\ collectorPc = "connect"
    /\ \E ok \in BOOLEAN :
          /\ clients' = [clients EXCEPT ![Len(clients)].state =
                             IF ok THEN "connected" ELSE "failed"]
          /\ results' = IF ok
                        THEN AppendResult(results, CastDevice(entry, Len(clients)))
                        ELSE results
    /\ fieldIdx' = fieldIdx + 1
    /\ collectorPc' = "fields"
    /\ UNCHANGED <<callerPc, entriesCh, chClosed, closeCount, lookupErr,
                   delivered, entry, returned>>
    /\ UNCHANGED castVars

Next ==
    \/ Begin
    \/ LookupDeliver
    \/ LookupReturn
    \/ Close
    \/ Return
    \/ CollectorRecv
    \/ CollectorExit
    \/ CollectorField
    \/ CollectorConnect

Spec == Init /\ [][Next]_vars

\* Spec with the collector goroutine scheduled fairly: a step the collector
\* can take is taken in the end, and a client.Connect call returns in the
\* end.
FairSpec ==
    /\ Spec
    /\ WF_vars(CollectorRecv)
    /\ WF_vars(CollectorExit)
    /\ WF_vars(CollectorField)
    /\ WF_vars(CollectorConnect)

(***************************************************************************)
(* net/url, as far as tts and the CastDevice methods use it.               *)
(***************************************************************************)
\* the characters url.QueryEscape leaves as they are: letters, digits and
\* - _ . ~
Unreserved ==
    {
     "a", "b", "c", "d", "e", "f", "g", "h", "i", "j", "k", "l", "m",
     "n", "o", "p", "q", "r", "s", "t", "u", "v", "w", "x", "y", "z",
     "A", "B", "C", "D", "E", "F", "G", "H", "I", "J", "K", "L", "M",
     "N", "O", "P", "Q", "R", "S", "T", "U", "V", "W", "X", "Y", "Z",
     "0", "1", "2", "3", "4", "5", "6", "7", "8", "9", "-", "_", ".",
     "~" }

\* the ASCII control characters among the characters of the model
ControlChars == {"\t"}

\* the byte value of a character that QueryEscape escapes
ByteOf(c) ==
    CASE c = "\t" -> 9
      [] c = " " -> 32
      [] c = "#" -> 35
      [] c = "%" -> 37
      [] c = "&" -> 38
      [] c = "+" -> 43
      [] c = "/" -> 47
      [] c = ":" -> 58
      [] c = "=" -> 61
      [] c = "?" -> 63

HexDigits ==
    <<"0", "1", "2", "3", "4", "5", "6", "7", "8", "9",
      "A", "B", "C", "D", "E", "F">>

\* EscapeChar leaving "+" as it is
EscapeCharKeepPlus(c) ==
    IF c \in Unreserved \/ c = "+" THEN <<c>>
    ELSE IF c = " " THEN <<"+">>
    ELSE <<"%", HexDigits[(ByteOf(c) \div 16) + 1], HexDigits[(ByteOf(c) % 16) + 1]>>

\* url.QueryEscape of one character: a space becomes "+", any other
\* character that is not unreserved becomes %XX
EscapeChar(c) ==
    IF c \in Unreserved THEN <<c>>
    ELSE IF c = " " THEN <<"+">>
    ELSE <<"%", HexDigits[(ByteOf(c) \div 16) + 1], HexDigits[(ByteOf(c) % 16) + 1]>>

RECURSIVE QueryEscape(_)
\* url.QueryEscape(s)
QueryEscape(s) ==
    IF s = <<>> THEN <<>> ELSE EscapeChar(Head(s)) \o QueryEscape(Tail(s))

\* strings.Index(s, c) for a one-character c, counted from 1; 0: not found
IndexOf(s, c) ==
    LET at == {i \in 1..Len(s) : s[i] = c}
    IN  IF at = {} THEN 0 ELSE CHOOSE i \in at : \A j \in at : i <= j

\* strings.Cut(s, c): the parts before and after the first c
CutBefore(s, c) ==
    LET i == IndexOf(s, c) IN IF i = 0 THEN s ELSE SubSeq(s, 1, i - 1)
CutAfter(s, c) ==
    LET i == IndexOf(s, c) IN IF i = 0 THEN <<>> ELSE SubSeq(s, i + 1, Len(s))

\* stringContainsCTLByte(s)
ContainsCTL(s) == \E i \in 1..Len(s) : s[i] \in ControlChars

\* a "%" of s that is not followed by two hexadecimal digits
BadEscape(s) ==
    \E i \in 1..Len(s) :
        /\ s[i] = "%"
        /\ \/ i + 2 > Len(s)
           \/ \E k \in {i + 1, i + 2} :
                 s[k] \notin {HexDigits[d] : d \in 1..16}
                        \cup {"a", "b", "c", "d", "e", "f"}

\* the zero url.URL
ZeroURL ==
    [Scheme |-> <<>>, Host |-> <<>>, Path |-> <<>>, ForceQuery |-> FALSE,
     RawQuery |-> <<>>, Fragment |-> <<>>]

\* url.Parse(rawURL) for a rawURL of the form scheme://host/path?query#frag:
\* the fragment is cut off at the first "#", a control character is an
\* error, the scheme ends at the first ":", the query starts after the
\* first "?", the authority is what follows "//" up to the next "/", and
\* path and fragment must not hold a malformed escape.
Parse(rawURL) ==
    LET u == CutBefore(rawURL, "#")
        frag == CutAfter(rawURL, "#")
        scheme == CutBefore(u, ":")
        afterScheme == CutAfter(u, ":")
        force == /\ afterScheme # <<>>
                 /\ IndexOf(afterScheme, "?") = Len(afterScheme)
        rest == CutBefore(afterScheme, "?")
        query == CutAfter(afterScheme, "?")
        authority == CutBefore(SubSeq(rest, 3, Len(rest)), "/")
        path == SubSeq(rest, 3 + Len(authority), Len(rest))
    IN  IF \/ ContainsCTL(u)
           \/ IndexOf(u, ":") <= 1
           \/ ~HasPrefix(rest, <<"/", "/">>)
           \/ BadEscape(path)
           \/ BadEscape(frag)
        THEN [err |-> TRUE, url |-> ZeroURL]
        ELSE [err |-> FALSE,
              url |-> [Scheme |-> scheme, Host |-> authority, Path |-> path,
                       ForceQuery |-> force, RawQuery |-> query,
                       Fragment |-> frag]]

\* (*url.URL).String() for a URL with a scheme and a host
String(u) ==
    u.Scheme \o <<":", "/", "/">> \o u.Host \o u.Path
    \o (IF u.ForceQuery \/ u.RawQuery # <<>> THEN <<"?">> \o u.RawQuery ELSE <<>>)
    \o (IF u.Fragment # <<>> THEN <<"#">> \o u.Fragment ELSE <<>>)

(***************************************************************************)
(* tts.                                                                    *)
(***************************************************************************)
\* base, up to its first %s and between its two %s
TtsBaseQ ==
    <<"h", "t", "t", "p", "s", ":", "/", "/", "t", "r", "a", "n", "s", "l", "a", "t", "e", ".",
      "g", "o", "o", "g", "l", "e", ".", "c", "o", "m", "/", "t", "r", "a", "n", "s", "l", "a", "t", "e", "_", "t", "t", "s", "?", "c", "l", "i", "e", "n", "t", "=", "t", "w", "-", "o", "b", "&", "i", "e", "=", "U",
      "T", "F", "-", "8", "&", "q", "=">>
TtsBaseTl == <<"&", "t", "l", "=">>

\* fmt.Sprintf(base, a, b)
Sprintf(a, b) == TtsBaseQ \o a \o TtsBaseTl \o b

\* tts(text, lang)
tts(text, lang) == Parse(Sprintf(QueryEscape(text), QueryEscape(lang)))

(***************************************************************************)
(* CastDevice: Speak, Play, QueueLoad, QueueInsert.                        *)
(***************************************************************************)
\* characters of the texts given to Speak: a letter, and characters with a
\* meaning in a URL or in its escaping
TextChars == {"a", " ", "+", "&", "%", "#", "\t"}
\* characters of the language tags given to Speak
LangChars == {"a", " ", "&"}

RECURSIVE SeqsUpTo(_, _)
\* all sequences over S of length at most n
SeqsUpTo(S, n) ==
    IF n = 0 THEN {<<>>}
    ELSE LET shorter == SeqsUpTo(S, n - 1)
         IN  shorter \cup
             {Append(s, x) : s \in {t \in shorter : Len(t) = n - 1}, x \in S}

Texts == SeqsUpTo(TextChars, MaxText)
Langs == SeqsUpTo(LangChars, MaxLang)

\* the *url.URL values given to Play and held by MediaData: the URLs
\* http://cast.example/a.mp3 and http://cast.example/b.mp3?v=1
Urls ==
    { [Scheme |-> <<"h", "t", "t", "p">>,
       Host |-> <<"c", "a", "s", "t", ".", "e", "x", "a", "m", "p", "l", "e">>,
       Path |-> <<"/", "a", ".", "m", "p", "3">>,
       ForceQuery |-> FALSE, RawQuery |-> <<>>, Fragment |-> <<>>],
      [Scheme |-> <<"h", "t", "t", "p">>,
       Host |-> <<"c", "a", "s", "t", ".", "e", "x", "a", "m", "p", "l", "e">>,
       Path |-> <<"/", "b", ".", "m", "p", "3">>,
       ForceQuery |-> FALSE, RawQuery |-> <<"v", "=", "1">>, Fragment |-> <<>>] }

Titles == {"", "T1", "T2"}

\* type MediaData struct { URL *url.URL; Title string }
MediaDataSet == [URL : Urls, Title : Titles]

\* the zero controllers.MediaMetaData, which a MediaItem built without a
\* MetaData field holds
ZeroMetaData == [MetaDataType |-> 0, Title |-> ""]

\* lines 52-56: the controllers.MediaItem Play builds
PlayItem(u) ==
    [ContentId |-> String(u), ContentType |-> "audio/mp3",
     StreamType |-> "BUFFERED", MetaData |-> ZeroMetaData]

\* QueueItem leaving the metadata out when the title is empty
QueueItemOmitEmptyTitle(d) ==
    [ContentId |-> String(d.URL), ContentType |-> "audio/mp3",
     StreamType |-> "BUFFERED",
     MetaData |-> IF d.Title = "" THEN ZeroMetaData
                  ELSE [MetaDataType |-> 3, Title |-> d.Title]]

\* lines 80-88 and 105-113: the controllers.MediaItem built for one MediaData
QueueItem(d) ==
    [ContentId |-> String(d.URL), ContentType |-> "audio/mp3",
     StreamType |-> "BUFFERED",
     MetaData |-> [MetaDataType |-> 3, Title |-> d.Title]]

\* QueueLoadItems filling items from its end
QueueLoadItemsReversed(data) ==
    [i \in 1..Len(data) |-> QueueItem(data[Len(data) + 1 - i])]

\* lines 78-89: items := make(..., len(data)); for i, d := range data
QueueLoadItems(data) == [i \in 1..Len(data) |-> QueueItem(data[i])]

\* QueueInsertItems building its items the way Play does
QueueInsertItemsAsPlay(data) == [i \in 1..Len(data) |-> PlayItem(data[i].URL)]

\* lines 103-114: the same loop in QueueInsert
QueueInsertItems(data) == [i \in 1..Len(data) |-> QueueItem(data[i])]

\* media.LoadMedia(ctx, item, currentTime, autoplay, customData)
LoadMediaCmd(item, currentTime, autoplay) ==
    [cmd |-> "LoadMedia", item |-> item, currentTime |-> currentTime,
     autoplay |-> autoplay]

\* media.QueueLoad(ctx, items, startIndex, customData)
QueueLoadCmd(items, startIndex) ==
    [cmd |-> "QueueLoad", items |-> items, startIndex |-> startIndex]

\* media.QueueInsert(ctx, items, customData)
QueueInsertCmd(items) == [cmd |-> "QueueInsert", items |-> items]

\* PlayOutcome with autoplay off
PlayNoAutoplay(u, mediaErr, cmdErr) ==
    IF mediaErr
    THEN [mediaReqs |-> 1, sent |-> <<>>, result |-> "MediaHandleError"]
    ELSE [mediaReqs |-> 1,
          sent |-> <<LoadMediaCmd(PlayItem(u), 0, FALSE)>>,
          result |-> IF cmdErr THEN "PlaybackError" ELSE "nil"]

\* lines 46-62, Play(ctx, url): what the call does and returns when
\* g.client.Media fails (mediaErr) or not and media.LoadMedia fails (cmdErr)
\* or not
PlayOutcome(u, mediaErr, cmdErr) ==
    IF mediaErr
    THEN [mediaReqs |-> 1, sent |-> <<>>, result |-> "MediaHandleError"]
    ELSE [mediaReqs |-> 1,
          sent |-> <<LoadMediaCmd(PlayItem(u), 0, TRUE)>>,
          result |-> IF cmdErr THEN "PlaybackError" ELSE "nil"]

\* SpeakOutcome dropping the error Play returns
SpeakIgnoringPlayError(text, lang, mediaErr, cmdErr) ==
    LET r == tts(text, lang)
    IN  IF r.err
        THEN [mediaReqs |-> 0, sent |-> <<>>, result |-> "ResolveError"]
        ELSE [PlayOutcome(r.url, mediaErr, cmdErr) EXCEPT !.result = "nil"]

\* lines 37-43, Speak(ctx, text, lang)
SpeakOutcome(text, lang, mediaErr, cmdErr) ==
    LET r == tts(text, lang)
    IN  IF r.err
        THEN [mediaReqs |-> 0, sent |-> <<>>, result |-> "ResolveError"]
        ELSE PlayOutcome(r.url, mediaErr, cmdErr)

\* QueueLoadOutcome asking for the media handle a second time when the
\* first request failed, and sending the command if that one succeeds
QueueLoadRetrying(data, mediaErr, cmdErr) ==
    [mediaReqs |-> IF mediaErr THEN 2 ELSE 1,
     sent |-> <<QueueLoadCmd(QueueLoadItems(data), 0)>>,
     result |-> IF cmdErr THEN "PlaybackError" ELSE "nil"]

\* lines 72-95, QueueLoad(ctx, data)
QueueLoadOutcome(data, mediaErr, cmdErr) ==
    IF mediaErr
    THEN [mediaReqs |-> 1, sent |-> <<>>, result |-> "MediaHandleError"]
    ELSE [mediaReqs |-> 1,
          sent |-> <<QueueLoadCmd(QueueLoadItems(data), 0)>>,
          result |-> IF cmdErr THEN "PlaybackError" ELSE "nil"]

\* lines 97-120, QueueInsert(ctx, data)
QueueInsertOutcome(data, mediaErr, cmdErr) ==
    IF mediaErr
    THEN [mediaReqs |-> 1, sent |-> <<>>, result |-> "MediaHandleError"]
    ELSE [mediaReqs |-> 1,
          sent |-> <<QueueInsertCmd(QueueInsertItems(data))>>,
          result |-> IF cmdErr THEN "PlaybackError" ELSE "nil"]

\* A finished LookupAndConnect that found one Google Home and returned its
\* device; the methods below are called on that device.
InitCast ==
    /\ callerPc = "done"
    /\ collectorPc = "done"
    /\ entriesCh = <<>>
    /\ chClosed = TRUE
    /\ closeCount = 1
    /\ lookupErr = FALSE
    /\ delivered = <<[AddrV4 |-> AddrOf(1), Port |-> 8009,
                      InfoFields |-> <<FieldGoogleHome>>]>>
    /\ entry = 0
    /\ fieldIdx = 0
    /\ clients = <<[host |-> AddrOf(1), port |-> 8009, entry |-> 1,
                    state |-> "connected"]>>
    /\ results = <<CastDevice(1, 1)>>
    /\ returned = <<CastDevice(1, 1)>>
    /\ call = [op |-> "none"]
    /\ mediaReqs = 0
    /\ sent = <<>>

\* g is a device LookupAndConnect returned, and no method of it has been
\* called yet. No method writes a field of g, so a call starts from the same
\* state whatever was called before it: a behaviour of SpecCast is one call,
\* and call, mediaReqs and sent record that call alone.
HaveDevice == callerPc = "done" /\ Len(returned) >= 1 /\ call.op = "none"

\* a call g.Speak(ctx, text, lang)
Speak ==
    /\ HaveDevice
    /\ \E text \in Texts, lang \in Langs, mediaErr, cmdErr \in BOOLEAN :
          LET out == SpeakOutcome(text, lang, mediaErr, cmdErr)
          IN  /\ call' = [op |-> "Speak", text |-> text, lang |-> lang,
                          ttsErr |-> tts(text, lang).err,
                          mediaErr |-> mediaErr, cmdErr |-> cmdErr,
                          result |-> out.result]
              /\ mediaReqs' = out.mediaReqs
              /\ sent' = out.sent
    /\ UNCHANGED discoveryVars

\* a call g.Play(ctx, url)
Play ==
    /\ HaveDevice
    /\ \E u \in Urls, mediaErr, cmdErr \in BOOLEAN :
          LET out == PlayOutcome(u, mediaErr, cmdErr)
          IN  /\ call' = [op |-> "Play", url |-> u,
                          mediaErr |-> mediaErr, cmdErr |-> cmdErr,
                          result |-> out.result]
              /\ mediaReqs' = out.mediaReqs
              /\ sent' = out.sent
    /\ UNCHANGED discoveryVars

\* a call g.QueueLoad(ctx, data)
QueueLoad ==
    /\ HaveDevice
    /\ \E data \in SeqsUpTo(MediaDataSet, MaxItems), mediaErr, cmdErr \in BOOLEAN :
          LET out == QueueLoadOutcome(data, mediaErr, cmdErr)
          IN  /\ call' = [op |-> "QueueLoad", data |-> data,
                          mediaErr |-> mediaErr, cmdErr |-> cmdErr,
                          result |-> out.result]
              /\ mediaReqs' = out.mediaReqs
              /\ sent' = out.sent
    /\ UNCHANGED discoveryVars

\* a call g.QueueInsert(ctx, data)
QueueInsert ==
    /\ HaveDevice
    /\ \E data \in SeqsUpTo(MediaDataSet, MaxItems), mediaErr, cmdErr \in BOOLEAN :
          LET out == QueueInsertOutcome(data, mediaErr, cmdErr)
          IN  /\ call' = [op |-> "QueueInsert", data |-> data,
                          mediaErr |-> mediaErr, cmdErr |-> cmdErr,
                          result |-> out.result]
              /\ mediaReqs' = out.mediaReqs
              /\ sent' = out.sent
    /\ UNCHANGED discoveryVars

NextCast ==
    \/ Speak
    \/ Play
    \/ QueueLoad
    \/ QueueInsert

SpecCast == InitCast /\ [][NextCast]_vars

(***************************************************************************)
(* Properties of LookupAndConnect.                                         *)
(***************************************************************************)
\* s begins with p, character by character
BeginsWith(s, p) ==
    /\ Len(s) >= Len(p)
    /\ \A i \in 1..Len(p) : s[i] = p[i]

\* the advertisement has a descriptor field that begins with the marker
Qualifies(ad) ==
    \E i \in 1..Len(ad.InfoFields) :
        BeginsWith(ad.InfoFields[i], googleHomeModelInfo)

\* the collector has taken entry e from the queue and is through with its
\* filtering and connect step
Processed(e) ==
    /\ \A i \in 1..Len(entriesCh) : entriesCh[i] # e
    /\ ~(entry = e /\ collectorPc \in {"fields", "connect"})

\* s is an initial part of t
IsPrefix(s, t) ==
    /\ Len(s) <= Len(t)
    /\ \A i \in 1..Len(s) : s[i] = t[i]

\* C1: when LookupAndConnect has returned, the collector has finished
\* draining the queue: every advertisement the lookup placed in the queue
\* has been through the collector's filtering and connect step.
C1_ReturnsAfterDrain ==
    callerPc = "done" =>
        /\ collectorPc = "done"
        /\ \A e \in 1..Len(delivered) : Processed(e)

\* C2: in a pass with a failed connect, no device whose connect failed is in
\* the returned sequence, and every device whose connect succeeded in that
\* pass is in it.
C2_ConnectFailureIsolated ==
    (callerPc = "done" /\ \E c \in 1..Len(clients) : clients[c].state = "failed") =>
        /\ \A i \in 1..Len(returned) :
              clients[returned[i].client].state = "connected"
        /\ \A c \in 1..Len(clients) :
              clients[c].state = "connected" =>
                  \E i \in 1..Len(returned) :
                      returned[i] = CastDevice(clients[c].entry, c)

\* C3: an advertisement with no descriptor field beginning with the marker
\* never yields a Device: no client is created for it (so no connect is
\* attempted), and no element of results or of the returned sequence is
\* for it.
C3_NoMarkerNoDevice ==
    /\ \A c \in 1..Len(clients) : Qualifies(delivered[clients[c].entry])
    /\ \A i \in 1..Len(results) : Qualifies(delivered[results[i].entry])
    /\ \A i \in 1..Len(returned) : Qualifies(delivered[returned[i].entry])

\* Witness of C3: the call has returned and the collector is through with an
\* advertisement whose fields hold the marker, but not at their start, next
\* to one that qualified and was connected.
C3_Witness ==
    /\ callerPc = "done"
    /\ collectorPc = "done"
    /\ \E e \in 1..Len(delivered) :
          /\ delivered[e].InfoFields = <<FieldFnGoogleHome, FieldMdGoogle>>
          /\ Processed(e)
    /\ Len(returned) >= 1

\* C4: when the stream emitted exactly one advertisement, which qualifies
\* and whose connect succeeded, the returned sequence is exactly one
\* connected Device with that advertisement's address and port.
C4_SingleAdvertisement ==
    ( /\ callerPc = "done"
      /\ Len(delivered) = 1
      /\ Qualifies(delivered[1])
      /\ Len(clients) >= 1
      /\ \A c \in 1..Len(clients) : clients[c].state = "connected" ) =>
        /\ Len(returned) = 1
        /\ returned[1].entry = 1
        /\ clients[returned[1].client].state = "connected"
        /\ clients[returned[1].client].host = delivered[1].AddrV4
        /\ clients[returned[1].client].port = delivered[1].Port

C6_ArrivalOrder ==
    /\ \A i, j \in 1..Len(results) :
          i < j => results[i].entry <= results[j].entry
    /\ \A i, j \in 1..Len(returned) :
          i < j => returned[i].entry <= returned[j].entry

\* Witness of C6: the returned sequence holds Devices of two advertisements.
C6_Witness ==
    /\ callerPc = "done"
    /\ Len(returned) >= 2
    /\ returned[1].entry # returned[Len(returned)].entry

(***************************************************************************)
(* Properties of the CastDevice methods.                                   *)
(***************************************************************************)
\* the error Play returns for the given outcomes of Media and LoadMedia
PlayError(mediaErr, cmdErr) ==
    IF mediaErr THEN "MediaHandleError"
    ELSE IF cmdErr THEN "PlaybackError" ELSE "nil"

C8_SpeakLoadsResolvedUri ==
    (call.op = "Speak" /\ ~call.ttsErr /\ ~call.mediaErr) =>
        /\ Len(sent) = 1
        /\ sent[1].cmd = "LoadMedia"
        /\ sent[1].item.ContentId = String(tts(call.text, call.lang).url)
        /\ sent[1].item.ContentId =
              TtsBaseQ \o QueryEscape(call.text) \o TtsBaseTl \o QueryEscape(call.lang)
        /\ sent[1].item.ContentType = "audio/mp3"
        /\ sent[1].item.StreamType = "BUFFERED"
        /\ sent[1].autoplay = TRUE
        /\ sent[1].currentTime = 0

\* Witness of C8: such a Speak, for a text and a lang that need escaping.
C8_Witness ==
    /\ call.op = "Speak"
    /\ ~call.ttsErr
    /\ ~call.mediaErr
    /\ call.text = <<"a", "#">>
    /\ call.lang = <<"&">>
    /\ Len(sent) = 1

\* what C9 says of the commands of a QueueLoad call: exactly one, a queue
\* load from index 0 with one item per input, in the input's order, each
\* with its input's locator string as content id
QueueLoadSent ==
    /\ Len(sent) = 1
    /\ sent[1].cmd = "QueueLoad"
    /\ sent[1].startIndex = 0
    /\ Len(sent[1].items) = Len(call.data)
    /\ \A i \in 1..Len(call.data) :
          sent[1].items[i].ContentId = String(call.data[i].URL)

\* C9 as stated: every QueueLoad call sends exactly one queue load command
\* from index 0 with the input's locators, in order.
C9_QueueLoadAlwaysSends == call.op = "QueueLoad" => QueueLoadSent

\* C9, amended: every QueueLoad call whose media-handle request succeeds
\* sends exactly one queue load command from index 0 with the input's
\* locators, in order.
C9_QueueLoadSendsGivenHandle ==
    (call.op = "QueueLoad" /\ ~call.mediaErr) => QueueLoadSent

\* Witness of C9: a QueueLoad of two items with different locators was sent.
C9_Witness ==
    /\ call.op = "QueueLoad"
    /\ ~call.mediaErr
    /\ Len(call.data) = 2
    /\ call.data[1].URL # call.data[2].URL
    /\ Len(sent) = 1

\* C10: an item sent by Play (called directly or by Speak) carries no
\* metadata: its MetaData is the zero value; every item sent by QueueLoad or
\* QueueInsert carries metadata of kind 3 with its input's title, the empty
\* title included.
C10_Metadata ==
    /\ call.op \in {"Play", "Speak"} =>
          \A k \in 1..Len(sent) : sent[k].item.MetaData = ZeroMetaData
    /\ call.op \in {"QueueLoad", "QueueInsert"} =>
          \A k \in 1..Len(sent) :
              /\ Len(sent[k].items) = Len(call.data)
              /\ \A i \in 1..Len(call.data) :
                    sent[k].items[i].MetaData =
                        [MetaDataType |-> 3, Title |-> call.data[i].Title]

\* Witness of C10: a QueueInsert was sent whose input has an empty title.
C10_Witness ==
    /\ call.op = "QueueInsert"
    /\ Len(sent) = 1
    /\ \E i \in 1..Len(call.data) : call.data[i].Title = ""

\* C11: a call of Play, QueueLoad or QueueInsert makes exactly one
\* media-handle request; when that request fails the call returns its error
\* and sends no command; otherwise it sends exactly one command and returns
\* an error exactly when that command returned one.
C11_OneRequestNoRetry ==
    call.op \in {"Play", "QueueLoad", "QueueInsert"} =>
        /\ mediaReqs = 1
        /\ call.mediaErr =>
              /\ call.result = "MediaHandleError"
              /\ sent = <<>>
        /\ ~call.mediaErr =>
              /\ Len(sent) = 1
              /\ (call.result # "nil") <=> call.cmdErr
              /\ call.cmdErr => call.result = "PlaybackError"

\* Witness of C11: a QueueLoad whose media-handle request failed returned
\* that error after one request and sent nothing.
C11_Witness ==
    /\ call.op = "QueueLoad"
    /\ call.mediaErr
    /\ call.result = "MediaHandleError"
    /\ mediaReqs = 1
    /\ sent = <<>>

\* what C12 says of the commands of a QueueInsert call: exactly one, a
\* queue insert (so no queue load) that names no start or replacement
\* index, with the items QueueLoad sends for the same input
QueueInsertSent ==
    /\ Len(sent) = 1
    /\ sent[1].cmd = "QueueInsert"
    /\ DOMAIN sent[1] = {"cmd", "items"}
    /\ sent[1].items = QueueLoadOutcome(call.data, FALSE, FALSE).sent[1].items

\* C12 as stated: every QueueInsert call sends exactly one queue insert
\* command, without an index, with the items QueueLoad sends for the same
\* input.
C12_QueueInsertAlwaysSends == call.op = "QueueInsert" => QueueInsertSent

\* C12, amended: every QueueInsert call whose media-handle request succeeds
\* sends exactly one queue insert command, without an index, with the items
\* QueueLoad sends for the same input.
C12_QueueInsertSendsGivenHandle ==
    (call.op = "QueueInsert" /\ ~call.mediaErr) => QueueInsertSent

\* Witness of C12: a QueueInsert of two different items was sent.
C12_Witness ==
    /\ call.op = "QueueInsert"
    /\ ~call.mediaErr
    /\ Len(call.data) = 2
    /\ call.data[1] # call.data[2]
    /\ Len(sent) = 1

(***************************************************************************)
(* Properties of tts.                                                      *)
(***************************************************************************)
\* the value of a hexadecimal digit
HexVal(d) ==
    CASE d = "0" -> 0 [] d = "1" -> 1 [] d = "2" -> 2 [] d = "3" -> 3
      [] d = "4" -> 4 [] d = "5" -> 5 [] d = "6" -> 6 [] d = "7" -> 7
      [] d = "8" -> 8 [] d = "9" -> 9 [] d = "A" -> 10 [] d = "B" -> 11
      [] d = "C" -> 12 [] d = "D" -> 13 [] d = "E" -> 14 [] d = "F" -> 15

\* the character with the given byte value
CharOfByte(n) ==
    CASE n = 9 -> "\t" [] n = 32 -> " " [] n = 35 -> "#" [] n = 37 -> "%"
      [] n = 38 -> "&" [] n = 43 -> "+" [] n = 47 -> "/" [] n = 58 -> ":"
      [] n = 61 -> "=" [] n = 63 -> "?"

RECURSIVE QueryUnescape(_)
\* the decoding of a query component: "+" is a space, %XX is the character
\* with that byte value, any other character is itself
QueryUnescape(s) ==
    IF s = <<>> THEN <<>>
    ELSE IF Head(s) = "+" THEN <<" ">> \o QueryUnescape(Tail(s))
    ELSE IF Head(s) = "%"
    THEN <<CharOfByte(16 * HexVal(s[2]) + HexVal(s[3]))>>
         \o QueryUnescape(SubSeq(s, 4, Len(s)))
    ELSE <<Head(s)>> \o QueryUnescape(Tail(s))

RECURSIVE QueryParam(_, _)
\* the decoded value of the first parameter named key in a query string of
\* the form k1=v1&k2=v2...
QueryParam(query, key) ==
    LET piece == CutBefore(query, "&")
    IN  IF QueryUnescape(CutBefore(piece, "=")) = key
        THEN QueryUnescape(CutAfter(piece, "="))
        ELSE QueryParam(CutAfter(query, "&"), key)

\* C13: for the text and lang of a Speak call, tts gives no error and a URI
\* from which decoding the q and tl query parameters gives back exactly the
\* text and the lang; the URI the call used is the one tts gives when asked
\* again for the same text and lang.
C13_TtsRoundTrip ==
    call.op = "Speak" =>
        LET r == tts(call.text, call.lang)
            query == Parse(String(r.url)).url.RawQuery
        IN  /\ ~r.err
            /\ call.ttsErr = r.err
            /\ QueryParam(query, <<"q">>) = call.text
            /\ QueryParam(query, <<"t", "l">>) = call.lang
            /\ \A k \in 1..Len(sent) : sent[k].item.ContentId = String(r.url)

\* Witness of C13: a Speak whose text holds a "+" and a space and whose lang
\* is "&" resolved and loaded its URI.
C13_Witness ==
    /\ call.op = "Speak"
    /\ call.text = <<"+", " ">>
    /\ call.lang = <<"&">>
    /\ ~call.ttsErr
    /\ Len(sent) = 1

(***************************************************************************)
(* Further properties of LookupAndConnect.                                 *)
(***************************************************************************)
\* the clients created for advertisement e, and the places of its Devices
\* in results
ClientsOf(e) == {c \in 1..Len(clients) : clients[c].entry = e}
DevicesOf(e) == {i \in 1..Len(results) : results[i].entry = e}

\* C14: an advertisement causes at most one connect attempt and yields at
\* most one Device, however many of its fields begin with the marker.
C14_OneConnectPerAdvertisement ==
    \A e \in 1..Len(delivered) :
        /\ Cardinality(ClientsOf(e)) <= 1
        /\ Cardinality(DevicesOf(e)) <= 1

\* C15: the queue is closed exactly once, only after the lookup call has
\* returned, and nothing is put in the queue once it is closed.
C15_ClosedOnceAfterLookup ==
    /\ [](/\ closeCount <= 1
          /\ chClosed <=> closeCount = 1
          /\ chClosed => callerPc \in {"return", "done"}
          /\ callerPc \in {"return", "done"} => closeCount = 1)
    /\ [][chClosed => /\ delivered' = delivered
                      /\ Len(entriesCh') <= Len(entriesCh)]_vars

\* Witness of C15: the lookup sent its advertisements and returned an error,
\* and the queue has been closed once with an advertisement still in it.
C15_Witness ==
    /\ closeCount = 1
    /\ chClosed
    /\ lookupErr
    /\ Len(delivered) = MaxAds
    /\ entriesCh # <<>>

\* C16: the caller reads the accumulated sequence, to return it, only when
\* the collector can no longer append to it, so that what was returned is
\* the whole sequence and stays so.
C16_NoReadWhileAppending ==
    callerPc = "done" =>
        /\ collectorPc = "done"
        /\ returned = results

\* C18: every Device in the sequence, accumulated or returned, has a control
\* session of its own, made for the address and port of its advertisement
\* and connected: no two places of the sequence hold the same session, and
\* none holds a session that is not connected.
OwnConnectedSessions(ds) ==
    /\ \A i, j \in 1..Len(ds) : i # j => ds[i].client # ds[j].client
    /\ \A i \in 1..Len(ds) :
          /\ ds[i].client \in 1..Len(clients)
          /\ clients[ds[i].client].state = "connected"
          /\ clients[ds[i].client].entry = ds[i].entry
          /\ clients[ds[i].client].host = delivered[ds[i].entry].AddrV4
          /\ clients[ds[i].client].port = delivered[ds[i].entry].Port

C18_OwnConnectedSession ==
    /\ OwnConnectedSessions(results)
    /\ OwnConnectedSessions(returned)

\* Witness of C18: the returned sequence holds two Devices, after a connect
\* that failed.
C18_Witness ==
    /\ callerPc = "done"
    /\ Len(returned) = 2
    /\ \E c \in 1..Len(clients) : clients[c].state = "failed"

\* C17: once the queue is closed, the collector, scheduled fairly and with
\* every connect returning, drains what is queued and exits.
C17_CollectorTerminates ==
    chClosed ~> (collectorPc = "done" /\ entriesCh = <<>>)

\* Witness of C17: the collector has exited after the close, having taken
\* every advertisement of a full stream and connected a client.
C17_Witness ==
    /\ chClosed
    /\ collectorPc = "done"
    /\ Len(delivered) = MaxAds
    /\ \A e \in 1..Len(delivered) : Processed(e)
    /\ \E c \in 1..Len(clients) : clients[c].state = "connected"

====
